---- MODULE Spec2Model ----
(***************************************************************************)
(* Model of the OpenCode Zen provider extension (src/index.ts).            *)
(*                                                                         *)
(* One process executes the default export once: it loads the persisted    *)
(* records, publishes a registry from the cache (warm start) or from a     *)
(* blocking fetch (cold start), refreshes in the background on a warm      *)
(* start, and registers the UI event handlers.  The three persisted files  *)
(* survive from one process to the next; everything else is per process.   *)
(*                                                                         *)
(* Spec          the cache over any number of successive processes         *)
(* SpecUI        one process and its input / session_start events          *)
(* SpecDispatch  one process and the dispatches of streamOpenCodeZen       *)
(* SpecStream    SpecDispatch with a backend stream that terminates        *)
(* SpecMerge     buildModels as a function of its arguments                *)
(* SpecDiff      the change tracker as a function of its arguments         *)
(* SpecRoundTrip saveModelsToCache followed by loadModelsFromCache         *)
(* SpecDamage    one process started on damaged files                      *)
(* SpecEvents    one process with its refresh and all the events it handles *)
(* SpecNetwork   one process, each request awaited in two steps, with the   *)
(*               fairness of the host and of the deadline timer            *)
(* SpecGetModels the export of src/unnamed/part_000, which awaits getModels *)
(***************************************************************************)
EXTENDS Integers, Sequences, FiniteSets, TLC

\* ------------------------------------------------------------------------
\* Bounds
\* ------------------------------------------------------------------------
NumIds == 2
MaxListLen == 2
MaxShown == 2
MaxBackendEvents == 1
MaxSnapshotLen == 3

\* ------------------------------------------------------------------------
\* Values
\* ------------------------------------------------------------------------
IdNames == <<"m1", "m2", "m3", "m4">>
Ids == {IdNames[i] : i \in 1..NumIds}

\* An optional value is the empty tuple (JavaScript's undefined or null, a
\* file that does not exist) or the one-element tuple holding the value.
Undef == <<>>
Null == <<>>
NoFile == <<>>
Some(v) == <<v>>
Get(o) == o[1]

\* A file that exists holds Some(value) when its text is the JSON of an array,
\* and otherwise one of two pairs: text that JSON.parse rejects, and text
\* that parses to a value that is not an array (an object, a number).
Unparsable == <<"unparsable", "">>
NotAnArrayFile == <<"not an array", "">>

\* what JSON.parse returns for NotAnArrayFile: a value without the methods of
\* an array, kept apart from every sequence of identifiers
NotAnArray == <<"{}">>

\* an object without one of its fields
WithoutField(m, f) == [g \in DOMAIN m \ {f} |-> m[g]]

\* !m[f] for a field holding a string: the field is missing or empty
Falsy(m, f) == f \notin DOMAIN m \/ m[f] = ""

\* unit prices, counted in abstract units: zero and one price that is not zero
Prices == {0, 1}

DEFAULT_CONTEXT_WINDOW == 128000
DEFAULT_MAX_TOKENS == 16384

\* all sequences over S of length at most n
RECURSIVE SeqsUpTo(_, _)
SeqsUpTo(S, n) ==
    IF n = 0 THEN {<<>>}
    ELSE LET shorter == SeqsUpTo(S, n - 1)
         IN  shorter \cup {Append(s, x) : s \in {t \in shorter : Len(t) = n - 1}, x \in S}

Range(s) == {s[i] : i \in 1..Len(s)}

\* Array.prototype.includes
Includes(s, x) == x \in Range(s)

\* ------------------------------------------------------------------------
\* models.dev enrichment data (ModelsDevAPI["opencode"])
\* ------------------------------------------------------------------------
\* One entry of opencode.models; every optional field may be Undef.
DevEntry(id, name, cin, cout, cread, cwrite, context, output, reasoning, attachment, modalities, npm) ==
    [id |-> id, name |-> name,
     cost |-> [input |-> cin, output |-> cout, cache_read |-> cread, cache_write |-> cwrite],
     limit |-> [context |-> context, output |-> output],
     reasoning |-> reasoning, attachment |-> attachment, modalities |-> modalities,
     provider |-> [npm |-> npm]]

\* an entry that carries nothing but (possibly) its own id and the two prices
PlainEntry(id, cin, cout) ==
    DevEntry(id, Undef, Some(cin), Some(cout), Undef, Undef, Undef, Undef, Undef, Undef, Undef, Undef)

\* The answers of the two endpoints in the lifecycle specifications.
\* Zen lists the identifiers in a fixed order, any of them possibly missing,
\* or lists the first one twice.
CanonIds == [i \in 1..NumIds |-> IdNames[i]]

RECURSIVE SubSeqs(_)
SubSeqs(s) ==
    IF s = <<>> THEN {<<>>}
    ELSE LET rest == SubSeqs(Tail(s))
         IN  rest \cup {<<Head(s)>> \o t : t \in rest}

ZenLists == SubSeqs(CanonIds) \cup {<<IdNames[1], IdNames[1]>>}

\* models.dev has a paid entry routed to the Anthropic backend, and can have
\* it for the first identifier only (an identifier without entry is free)
PaidEntry ==
    DevEntry(Undef, Undef, Some(1), Some(1), Undef, Undef, Undef, Undef, Undef, Undef, Undef,
             Some("@ai-sdk/anthropic"))

\* the enrichment payloads: no opencode section (Undef), a section without
\* entry for any listed identifier, a section with the paid entry
DevData ==
    {Undef,
     Some([models |-> Some([i \in Ids |-> Undef]), provider |-> Some([npm |-> Undef])]),
     Some([models |-> Some([i \in Ids |-> IF i = IdNames[1] THEN Some(PaidEntry) ELSE Undef]),
           provider |-> Some([npm |-> Undef])])}

\* ------------------------------------------------------------------------
\* getBackendFromNpmPackage
\* ------------------------------------------------------------------------
\* a lookup that falls back to the provider default for an unknown package
getBackendFromNpmPackage_DefaultForUnknown(npmPackage, defaultBackend) ==
    IF npmPackage \notin {Some("@ai-sdk/anthropic"), Some("@ai-sdk/openai"), Some("@ai-sdk/google")}
    THEN CASE defaultBackend = Some("@ai-sdk/anthropic") -> "anthropic"
           [] defaultBackend = Some("@ai-sdk/openai") -> "openai-responses"
           [] defaultBackend = Some("@ai-sdk/google") -> "google"
           [] OTHER -> "openai-completions"
    ELSE CASE npmPackage = Some("@ai-sdk/anthropic") -> "anthropic"
           [] npmPackage = Some("@ai-sdk/openai") -> "openai-responses"
           [] npmPackage = Some("@ai-sdk/google") -> "google"
           [] OTHER -> "openai-completions"

getBackendFromNpmPackage(npmPackage, defaultBackend) ==
    IF npmPackage = Undef \/ npmPackage = Some("")
    THEN CASE defaultBackend = Some("@ai-sdk/anthropic") -> "anthropic"
           [] defaultBackend = Some("@ai-sdk/openai") -> "openai-responses"
           [] defaultBackend = Some("@ai-sdk/google") -> "google"
           [] OTHER -> "openai-completions"
    ELSE CASE npmPackage = Some("@ai-sdk/anthropic") -> "anthropic"
           [] npmPackage = Some("@ai-sdk/openai") -> "openai-responses"
           [] npmPackage = Some("@ai-sdk/google") -> "google"
           [] OTHER -> "openai-completions"

\* ------------------------------------------------------------------------
\* buildModels
\* ------------------------------------------------------------------------
\* a ?? b
Coalesce(a, b) == IF a = Undef THEN b ELSE Get(a)

\* a || b for strings
OrElse(a, b) == IF a = Undef \/ a = Some("") THEN b ELSE Get(a)

\* modelsDevData?.models?.[modelId]
DevLookup(modelsDevData, modelId) ==
    IF modelsDevData = Undef THEN Undef
    ELSE IF Get(modelsDevData).models = Undef THEN Undef
    ELSE IF modelId \in DOMAIN Get(Get(modelsDevData).models)
         THEN Get(Get(modelsDevData).models)[modelId]
    ELSE Undef

\* modelsDevData?.provider?.npm
ProviderDefaultNpm(modelsDevData) ==
    IF modelsDevData = Undef THEN Undef
    ELSE IF Get(modelsDevData).provider = Undef THEN Undef
    ELSE Get(Get(modelsDevData).provider).npm

\* the record pushed for an identifier that has an enrichment entry
EnrichedRecord(modelId, devModel, providerDefaultNpm) ==
    [id |-> OrElse(devModel.id, modelId),
     name |-> OrElse(devModel.name, modelId),
     backend |-> getBackendFromNpmPackage(devModel.provider.npm, providerDefaultNpm),
     reasoning |-> Coalesce(devModel.reasoning, FALSE),
     input |-> IF devModel.attachment = Some(TRUE)
                  \/ (devModel.modalities # Undef /\ Includes(Get(devModel.modalities), "image"))
               THEN <<"text", "image">> ELSE <<"text">>,
     cost |-> [input |-> Coalesce(devModel.cost.input, 0),
               output |-> Coalesce(devModel.cost.output, 0),
               cacheRead |-> Coalesce(devModel.cost.cache_read, 0),
               cacheWrite |-> Coalesce(devModel.cost.cache_write, 0)],
     contextWindow |-> Coalesce(devModel.limit.context, DEFAULT_CONTEXT_WINDOW),
     maxTokens |-> Coalesce(devModel.limit.output, DEFAULT_MAX_TOKENS)]

\* defaults with another context window
DefaultRecord_SmallContext(modelId) ==
    [id |-> modelId,
     name |-> modelId,
     backend |-> "openai-completions",
     reasoning |-> FALSE,
     input |-> <<"text">>,
     cost |-> [input |-> 0, output |-> 0, cacheRead |-> 0, cacheWrite |-> 0],
     contextWindow |-> 4096,
     maxTokens |-> DEFAULT_MAX_TOKENS]

\* the record pushed for an identifier without enrichment
DefaultRecord(modelId) ==
    [id |-> modelId,
     name |-> modelId,
     backend |-> "openai-completions",
     reasoning |-> FALSE,
     input |-> <<"text">>,
     cost |-> [input |-> 0, output |-> 0, cacheRead |-> 0, cacheWrite |-> 0],
     contextWindow |-> DEFAULT_CONTEXT_WINDOW,
     maxTokens |-> DEFAULT_MAX_TOKENS]

\* the body of the loop over zenModelIds
BuildRecord(modelId, modelsDevData) ==
    LET devModel == DevLookup(modelsDevData, modelId)
    IN  IF devModel # Undef
        THEN EnrichedRecord(modelId, Get(devModel), ProviderDefaultNpm(modelsDevData))
        ELSE DefaultRecord(modelId)

\* a loop that pushes a record only for the identifiers that have an entry
EnrichAll_OnlyEnriched(zenModelIds, modelsDevData) ==
    LET all == [i \in 1..Len(zenModelIds) |-> BuildRecord(zenModelIds[i], modelsDevData)]
    IN  SelectSeq(all, LAMBDA m : DevLookup(modelsDevData, m.id) # Undef)

\* the list built by the loop, which is what saveModelsToCache receives
EnrichAll(zenModelIds, modelsDevData) ==
    [i \in 1..Len(zenModelIds) |-> BuildRecord(zenModelIds[i], modelsDevData)]

\* m.cost.input === 0 && m.cost.output === 0
IsFree(m) == m.cost.input = 0 /\ m.cost.output = 0

FilterFree(models) == SelectSeq(models, IsFree)

\* buildModels without the filter of the paid records
buildModels_NoFilter(zenModelIds, modelsDevData, hasKey) ==
    EnrichAll(zenModelIds, modelsDevData)

\* the value buildModels returns
buildModels(zenModelIds, modelsDevData, hasKey) ==
    IF ~hasKey THEN FilterFree(EnrichAll(zenModelIds, modelsDevData))
    ELSE EnrichAll(zenModelIds, modelsDevData)

\* models.filter(free).map(m => m.id)
FreeIdsOf(models) ==
    LET free == FilterFree(models) IN [i \in 1..Len(free) |-> free[i].id]

IdsOf(models) == [i \in 1..Len(models) |-> models[i].id]

\* ------------------------------------------------------------------------
\* Persisted records
\* ------------------------------------------------------------------------
\* loadModelsFromCache: the parsed array, or Null when the file is missing,
\* not the JSON of an array, empty, or holds a record without id, name or
\* backend.  No other field of a record is looked at.
loadModelsFromCache(file) ==
    IF file = NoFile THEN Null
    ELSE IF Len(file) = 2 THEN Null
    ELSE IF Len(Get(file)) = 0 THEN Null
    ELSE IF \E i \in 1..Len(Get(file)) :
                \/ Falsy(Get(file)[i], "id")
                \/ Falsy(Get(file)[i], "name")
                \/ Falsy(Get(file)[i], "backend")
         THEN Null
    ELSE file

\* loadFreeModelIds: the parsed content, whatever it is, or [] when the file
\* is missing or JSON.parse throws
loadFreeModelIds(file) ==
    IF file = NoFile THEN <<>>
    ELSE IF Len(file) = 2 THEN (IF file = Unparsable THEN <<>> ELSE NotAnArray)
    ELSE Get(file)

\* writeFileSync(JSON.stringify(value)) inside try/catch: the file holds the
\* value afterwards, or is left as it was when the write throws
WriteFile(file, value, ok) == IF ok THEN Some(value) ELSE file

\* ------------------------------------------------------------------------
\* registerModels
\* ------------------------------------------------------------------------
\* Map.prototype.set on a map kept as the sequence of its values in
\* insertion order: an existing key keeps its place and takes the new value
MapSet(map, m) ==
    IF \E i \in 1..Len(map) : map[i].id = m.id
    THEN [i \in 1..Len(map) |-> IF map[i].id = m.id THEN m ELSE map[i]]
    ELSE Append(map, m)

\* MODEL_MAP.clear() followed by MODEL_MAP.set(model.id, model) for each model
RECURSIVE MapOfFrom(_, _, _)
MapOfFrom(models, i, map) ==
    IF i > Len(models) THEN map
    ELSE MapOfFrom(models, i + 1, MapSet(map, models[i]))

\* a refill that a lookup could see before the first model is set again
MapOf_Partial(models) == MapOfFrom(models, 2, <<>>)

MapOf(models) == MapOfFrom(models, 1, <<>>)

\* the models array handed to pi.registerProvider
ProviderModels(models) ==
    [i \in 1..Len(models) |->
        [id |-> models[i].id, name |-> models[i].name, reasoning |-> models[i].reasoning,
         input |-> models[i].input,
         cost |-> IF "cost" \in DOMAIN models[i] THEN models[i].cost ELSE Undef,
         contextWindow |-> models[i].contextWindow, maxTokens |-> models[i].maxTokens]]

\* MODEL_MAP.get(id)
MapGet(map, id) ==
    IF \E i \in 1..Len(map) : map[i].id = id
    THEN Some(map[CHOOSE i \in 1..Len(map) : map[i].id = id])
    ELSE Undef

\* ------------------------------------------------------------------------
\* Change tracker (the diff of the default export)
\* ------------------------------------------------------------------------
\* current.filter((id) => !previous.includes(id))
\* a filter that walks the wrong one of the two arrays
Minus_Swapped(current, previous) == SelectSeq(previous, LAMBDA id : ~Includes(current, id))

Minus(current, previous) == SelectSeq(current, LAMBDA id : ~Includes(previous, id))

\* the text handed to ctx.ui.setWidget, one tuple per line
RECURSIVE ChangeLines(_, _)
ChangeLines(mark, ids) ==
    IF ids = <<>> THEN <<>> ELSE <<<<mark, Head(ids)>>>> \o ChangeLines(mark, Tail(ids))

NotificationLines(added, removed) ==
    <<<<"OpenCode Zen: Free model availability changed">>>>
    \o (IF Len(added) > 0 THEN <<<<"">>, <<"Added:">>>> \o ChangeLines("  + ", added) ELSE <<>>)
    \o (IF Len(removed) > 0 THEN <<<<"">>, <<"Removed:">>>> \o ChangeLines("  - ", removed) ELSE <<>>)
    \o <<<<"">>, <<"(Dismisses in 10 seconds or on next interaction)">>>>

\* ------------------------------------------------------------------------
\* State
\* ------------------------------------------------------------------------
VARIABLES
    zenFile,            \* zen-models.json : NoFile or Some(ids)
    modelsFile,         \* models.json : NoFile or Some(models)
    freeFile,           \* free-model-ids.json : NoFile or Some(ids)
    hasApiKey,          \* Boolean(process.env.OPENCODE_API_KEY)
    setting,            \* notify-free-model-changes as getExtensionSetting reads it
    pc,                 \* position of the default export
    start,              \* "warm" (fast path) or "cold" once the cache was read
    fetch,              \* fetchFreshModels: phase, zenModelIds, returned value
    previousFreeIds,    \* loaded at the top of the default export
    MODEL_MAP,          \* values of the lookup map, in insertion order
    published,          \* the models last handed to pi.registerProvider
    terminalFailures,   \* "Provider not registered" lines written to the console
    notifier,           \* the two notification handlers and their closure
    widget,             \* content of the "opencode-zen-info" widget
    widgetDismissTimeout, \* whether the 10 second timer is armed
    shownCount,         \* calls of ctx.ui.setWidget with a notification
    dispatch,           \* the latest call of streamOpenCodeZen
    pure                \* a call of a pure function: its arguments and result

vars == <<zenFile, modelsFile, freeFile, hasApiKey, setting, pc, start, fetch,
          previousFreeIds, MODEL_MAP, published, terminalFailures, notifier, widget,
          widgetDismissTimeout, shownCount, dispatch, pure>>

files == <<zenFile, modelsFile, freeFile>>
env == <<hasApiKey, setting>>
ui == <<widget, widgetDismissTimeout, shownCount>>

NoFetch == [phase |-> "idle", zenModelIds |-> Undef, enriched |-> FALSE, result |-> Null]
NoNotifier == [registered |-> FALSE, added |-> <<>>, removed |-> <<>>, notificationShown |-> FALSE]
NoPure == [op |-> "none"]
NoDispatch == [phase |-> "idle", id |-> "", apiKey |-> FALSE, cfg |-> Undef, inRegistry |-> FALSE,
               backend |-> "none", events |-> <<>>, ended |-> 0]

\* the state of a process that has just been started
Fresh ==
    /\ pc = "init"
    /\ start = "none"
    /\ fetch = NoFetch
    /\ previousFreeIds = <<>>
    /\ MODEL_MAP = <<>>
    /\ published = Undef
    /\ terminalFailures = 0
    /\ notifier = NoNotifier
    /\ widget = Undef
    /\ widgetDismissTimeout = FALSE
    /\ shownCount = 0
    /\ dispatch = NoDispatch

\* first process on a machine that has no cache directory yet
Init ==
    /\ zenFile = NoFile
    /\ modelsFile = NoFile
    /\ freeFile = NoFile
    /\ hasApiKey \in BOOLEAN
    /\ setting \in {"on", "off"}
    /\ pure = NoPure
    /\ Fresh

\* ------------------------------------------------------------------------
\* The default export
\* ------------------------------------------------------------------------
\* the closure built after the registry is in place: the diff of the free
\* identifiers of MODEL_MAP against the previous session's snapshot, and the
\* two handlers, registered only for a change with the setting "on"
Notifier(map, previous, notify) ==
    LET currentFreeIds == FreeIdsOf(map)
        added == Minus(currentFreeIds, previous)
        removed == Minus(previous, currentFreeIds)
        hasFreeModelChanges == Len(added) > 0 \/ Len(removed) > 0
    IN  IF hasFreeModelChanges /\ notify = "on"
        THEN [registered |-> TRUE, added |-> added, removed |-> removed,
              notificationShown |-> FALSE]
        ELSE NoNotifier

\* m.cost.input throws a TypeError for a record without cost
LacksCost(models) == \E i \in 1..Len(models) : "cost" \notin DOMAIN models[i]

\* The synchronous part of the export throws a TypeError when a cached
\* record has no cost (the filters of the fast path and of the diff read
\* m.cost.input) or when the snapshot is not an array (the diff calls
\* previousFreeIds.includes or previousFreeIds.filter).
FastPathThrows(cachedModels, previous) == LacksCost(cachedModels) \/ previous = NotAnArray

\* the models the fast path registers from the cache
FastPathModels(cachedModels, hasKey) ==
    IF hasKey THEN cachedModels ELSE FilterFree(cachedModels)

\* a fast path that also saves the free identifiers of the cached registry
InitWarm_SavesSnapshot ==
    /\ pc = "init"
    /\ LET cachedModels == loadModelsFromCache(modelsFile) IN
        /\ cachedModels # Null /\ Len(Get(cachedModels)) > 0
        /\ ~FastPathThrows(Get(cachedModels), loadFreeModelIds(freeFile))
        /\ LET models == FastPathModels(Get(cachedModels), hasApiKey)
               previous == loadFreeModelIds(freeFile)
           IN  /\ previousFreeIds' = previous
               /\ MODEL_MAP' = MapOf(models)
               /\ published' = Some(ProviderModels(models))
               /\ notifier' = Notifier(MapOf(models), previous, setting)
               /\ freeFile' = Some(FreeIdsOf(models))
    /\ start' = "warm"
    /\ fetch' = [NoFetch EXCEPT !.phase = "zen"]
    /\ pc' = "done"
    /\ UNCHANGED <<pure, zenFile, modelsFile, env, terminalFailures, ui, dispatch>>

\* a fast path that starts the refresh without registering the cached models
InitWarm_RefreshFirst ==
    /\ pc = "init"
    /\ LET cachedModels == loadModelsFromCache(modelsFile) IN
        /\ cachedModels # Null /\ Len(Get(cachedModels)) > 0
        /\ ~FastPathThrows(Get(cachedModels), loadFreeModelIds(freeFile))
        /\ LET previous == loadFreeModelIds(freeFile)
           IN  /\ previousFreeIds' = previous
               /\ notifier' = Notifier(MODEL_MAP, previous, setting)
    /\ start' = "warm"
    /\ fetch' = [NoFetch EXCEPT !.phase = "zen"]
    /\ pc' = "done"
    /\ UNCHANGED <<pure, files, env, MODEL_MAP, published, terminalFailures, ui, dispatch>>

\* a fast path that awaits the refresh before it completes
InitWarm_AwaitsRefresh ==
    /\ pc = "init"
    /\ LET cachedModels == loadModelsFromCache(modelsFile) IN
        /\ cachedModels # Null /\ Len(Get(cachedModels)) > 0
        /\ ~FastPathThrows(Get(cachedModels), loadFreeModelIds(freeFile))
        /\ LET models == FastPathModels(Get(cachedModels), hasApiKey)
               previous == loadFreeModelIds(freeFile)
           IN  /\ previousFreeIds' = previous
               /\ MODEL_MAP' = MapOf(models)
               /\ published' = Some(ProviderModels(models))
               /\ notifier' = Notifier(MapOf(models), previous, setting)
    /\ start' = "warm"
    /\ fetch' = [NoFetch EXCEPT !.phase = "zen"]
    /\ pc' = "warmWait"
    /\ UNCHANGED <<pure, files, env, terminalFailures, ui, dispatch>>

\* Warm start: the whole export runs without suspending.  It publishes the
\* cached registry, starts the background refresh and registers the handlers.
InitWarm ==
    /\ pc = "init"
    /\ LET cachedModels == loadModelsFromCache(modelsFile) IN
        /\ cachedModels # Null /\ Len(Get(cachedModels)) > 0
        /\ ~FastPathThrows(Get(cachedModels), loadFreeModelIds(freeFile))
        /\ LET models == FastPathModels(Get(cachedModels), hasApiKey)
               previous == loadFreeModelIds(freeFile)
           IN  /\ previousFreeIds' = previous
               /\ MODEL_MAP' = MapOf(models)
               /\ published' = Some(ProviderModels(models))
               /\ notifier' = Notifier(MapOf(models), previous, setting)
    /\ start' = "warm"
    /\ fetch' = [NoFetch EXCEPT !.phase = "zen"]
    /\ pc' = "done"
    /\ UNCHANGED <<pure, files, env, terminalFailures, ui, dispatch>>

\* Warm start ended by a TypeError, which rejects the promise of the export.
\* Without credential the filter of the fast path throws on the record
\* without cost before anything is registered.  Otherwise the cached models
\* are registered and the refresh is started before the diff throws; no
\* handler is registered.
InitWarmThrows ==
    /\ pc = "init"
    /\ LET cachedModels == loadModelsFromCache(modelsFile)
           previous == loadFreeModelIds(freeFile)
       IN  /\ cachedModels # Null /\ Len(Get(cachedModels)) > 0
           /\ FastPathThrows(Get(cachedModels), previous)
           /\ previousFreeIds' = previous
           /\ IF ~hasApiKey /\ LacksCost(Get(cachedModels))
              THEN UNCHANGED <<MODEL_MAP, published, fetch>>
              ELSE LET models == FastPathModels(Get(cachedModels), hasApiKey)
                   IN  /\ MODEL_MAP' = MapOf(models)
                       /\ published' = Some(ProviderModels(models))
                       /\ fetch' = [NoFetch EXCEPT !.phase = "zen"]
    /\ start' = "warm"
    /\ pc' = "threw"
    /\ UNCHANGED <<pure, files, env, terminalFailures, notifier, ui, dispatch>>

\* Cold start: the export suspends on fetchFreshModels(hasApiKey, 3000).
InitCold ==
    /\ pc = "init"
    /\ LET cachedModels == loadModelsFromCache(modelsFile) IN
        ~(cachedModels # Null /\ Len(Get(cachedModels)) > 0)
    /\ previousFreeIds' = loadFreeModelIds(freeFile)
    /\ start' = "cold"
    /\ fetch' = [NoFetch EXCEPT !.phase = "zen"]
    /\ pc' = "coldWait"
    /\ UNCHANGED <<pure, files, env, MODEL_MAP, published, terminalFailures, notifier, ui,
                   dispatch>>

\* ------------------------------------------------------------------------
\* fetchFreshModels
\* ------------------------------------------------------------------------
\* the ways step 1 ends in "return null": the request fails, the status is
\* not a success, the deadline aborts it (cold start only), the body is not
\* JSON or has no data array
ZenFailures == {"network error", "bad status", "timeout", "malformed"}

\* a failure of step 1 that is reported on the warm path too and never ends
\* the cold start
ZenFetchFails_AlwaysReports(why) ==
    /\ fetch.phase = "zen"
    /\ why = "timeout" => start = "cold"
    /\ fetch' = [fetch EXCEPT !.phase = "failed"]
    /\ terminalFailures' = terminalFailures + 1
    /\ pc' = IF start = "cold" THEN "abandoned" ELSE pc
    /\ UNCHANGED <<pure, files, env, start, previousFreeIds, MODEL_MAP, published, notifier, ui,
                   dispatch>>

\* a failure of step 1 that falls back to registering the default records of
\* the identifiers cached in zen-models.json
ZenFetchFails_RegistersFallback(why) ==
    /\ fetch.phase = "zen"
    /\ why = "timeout" => start = "cold"
    /\ fetch' = [fetch EXCEPT !.phase = "failed"]
    /\ IF zenFile # NoFile
       THEN /\ MODEL_MAP' = MapOf(EnrichAll(Get(zenFile), Undef))
            /\ published' = Some(ProviderModels(EnrichAll(Get(zenFile), Undef)))
            /\ UNCHANGED <<terminalFailures, pc>>
       ELSE /\ UNCHANGED <<MODEL_MAP, published>>
            /\ IF start = "cold"
               THEN /\ terminalFailures' = terminalFailures + 1
                    /\ pc' = "abandoned"
               ELSE UNCHANGED <<terminalFailures, pc>>
    /\ UNCHANGED <<pure, files, env, start, previousFreeIds, notifier, ui, dispatch>>

\* Step 1 fails.  The background refresh ends silently; the cold start
\* reports the failure and abandons the registration.
ZenFetchFails(why) ==
    /\ fetch.phase \in {"zen", "zenBody"}
    /\ why = "timeout" => start = "cold"
    /\ fetch' = [fetch EXCEPT !.phase = "failed"]
    /\ IF start = "cold"
       THEN /\ terminalFailures' = terminalFailures + 1
            /\ pc' = "abandoned"
       ELSE UNCHANGED <<terminalFailures, pc>>
    /\ UNCHANGED <<pure, files, env, start, previousFreeIds, MODEL_MAP, published, notifier, ui,
                   dispatch>>

\* Step 1 succeeds with the identifiers of the data array, which are saved;
\* the function then suspends on the models.dev request.
ZenFetchSucceeds(ids, ok) ==
    /\ fetch.phase \in {"zen", "zenBody"}
    /\ zenFile' = WriteFile(zenFile, ids, ok)
    /\ fetch' = [fetch EXCEPT !.phase = "enrich", !.zenModelIds = Some(ids)]
    /\ UNCHANGED <<pure, modelsFile, freeFile, env, pc, start, previousFreeIds, MODEL_MAP, published,
                   terminalFailures, notifier, ui, dispatch>>

\* a step 2 after which a failed write of models.json keeps the result from
\* being registered
EnrichmentEnds_WriteFailureAborts(modelsDevData, okModels, okFree) ==
    /\ fetch.phase \in {"enrich", "enrichBody"}
    /\ LET zenModelIds == Get(fetch.zenModelIds)
           models == buildModels(zenModelIds, modelsDevData, hasApiKey)
           empty == Len(models) = 0 \/ ~okModels
       IN  /\ modelsFile' = WriteFile(modelsFile, EnrichAll(zenModelIds, modelsDevData), okModels)
           /\ fetch' = [fetch EXCEPT !.phase = "returned", !.result = Some(models),
                                     !.enriched = modelsDevData # Undef]
           /\ IF empty
              THEN /\ UNCHANGED <<freeFile, MODEL_MAP, published, notifier>>
                   /\ IF start = "cold"
                      THEN /\ terminalFailures' = terminalFailures + 1
                           /\ pc' = "abandoned"
                      ELSE UNCHANGED <<terminalFailures, pc>>
              ELSE /\ MODEL_MAP' = MapOf(models)
                   /\ published' = Some(ProviderModels(models))
                   /\ freeFile' = WriteFile(freeFile, FreeIdsOf(models), okFree)
                   /\ UNCHANGED terminalFailures
                   /\ IF start = "cold" /\ previousFreeIds = NotAnArray
                      THEN /\ pc' = "threw"
                           /\ UNCHANGED notifier
                      ELSE IF start = "cold"
                      THEN /\ notifier' = Notifier(MapOf(models), previousFreeIds, setting)
                           /\ pc' = "done"
                      ELSE UNCHANGED <<notifier, pc>>
    /\ UNCHANGED <<pure, zenFile, env, start, previousFreeIds, ui, dispatch>>

\* Step 2 ends.  modelsDevData is Undef when the request failed, was aborted
\* by the deadline, had a status that is not a success, a body that is not
\* JSON, or no opencode section; fetch.enriched notes whether it was defined.
\* buildModels saves the enriched list and returns the list to register.
\* The caller then continues: the background refresh with its then-callback,
\* the cold start with the rest of the export, whose diff throws a TypeError
\* when the snapshot loaded at the start is not an array.
EnrichmentEnds(modelsDevData, okModels, okFree) ==
    /\ fetch.phase \in {"enrich", "enrichBody"}
    /\ LET zenModelIds == Get(fetch.zenModelIds)
           models == buildModels(zenModelIds, modelsDevData, hasApiKey)
           empty == Len(models) = 0
       IN  /\ modelsFile' = WriteFile(modelsFile, EnrichAll(zenModelIds, modelsDevData), okModels)
           /\ fetch' = [fetch EXCEPT !.phase = "returned", !.result = Some(models),
                                     !.enriched = modelsDevData # Undef]
           /\ IF empty
              THEN /\ UNCHANGED <<freeFile, MODEL_MAP, published, notifier>>
                   /\ IF start = "cold"
                      THEN /\ terminalFailures' = terminalFailures + 1
                           /\ pc' = "abandoned"
                      ELSE UNCHANGED <<terminalFailures, pc>>
              ELSE /\ MODEL_MAP' = MapOf(models)
                   /\ published' = Some(ProviderModels(models))
                   /\ freeFile' = WriteFile(freeFile, FreeIdsOf(models), okFree)
                   /\ UNCHANGED terminalFailures
                   /\ IF start = "cold" /\ previousFreeIds = NotAnArray
                      THEN /\ pc' = "threw"
                           /\ UNCHANGED notifier
                      ELSE IF start = "cold"
                      THEN /\ notifier' = Notifier(MapOf(models), previousFreeIds, setting)
                           /\ pc' = "done"
                      ELSE UNCHANGED <<notifier, pc>>
    /\ UNCHANGED <<pure, zenFile, env, start, previousFreeIds, ui, dispatch>>

\* ------------------------------------------------------------------------
\* Notification widget
\* ------------------------------------------------------------------------
\* handlers that forget to set notificationShown
ShowIfDue_NoFlag(n, w, t, c, hasUI, hasSetWidget) ==
    IF n.registered /\ ~n.notificationShown /\ hasUI /\ hasSetWidget
    THEN <<n, Some(NotificationLines(n.added, n.removed)), TRUE, c + 1>>
    ELSE <<n, w, t, c>>

\* showFreeModelChangeNotification followed by notificationShown = true, as
\* both handlers do when the flag is unset and ctx.hasUI holds.  Yields the
\* new <<notifier, widget, widgetDismissTimeout, shownCount>>.
ShowIfDue(n, w, t, c, hasUI, hasSetWidget) ==
    IF n.registered /\ ~n.notificationShown /\ hasUI
    THEN IF hasSetWidget
         THEN <<[n EXCEPT !.notificationShown = TRUE],
                Some(NotificationLines(n.added, n.removed)), TRUE, c + 1>>
         ELSE <<[n EXCEPT !.notificationShown = TRUE], w, t, c>>
    ELSE <<n, w, t, c>>

\* clearWidgetNotification: yields the new <<widget, widgetDismissTimeout>>
Cleared(w, hasSetWidget) == <<IF hasSetWidget THEN Undef ELSE w, FALSE>>

\* An "input" event: the notification handler (when registered) runs first,
\* the dismiss handler registered at the end of the export runs after it.
Input(hasUI, hasSetWidget) ==
    /\ pc = "done"
    /\ shownCount < MaxShown
    /\ LET shown == ShowIfDue(notifier, widget, widgetDismissTimeout, shownCount,
                              hasUI, hasSetWidget)
           after == Cleared(shown[2], hasSetWidget)
       IN  /\ notifier' = shown[1]
           /\ shownCount' = shown[4]
           /\ widget' = after[1]
           /\ widgetDismissTimeout' = after[2]
    /\ UNCHANGED <<pure, files, env, pc, start, fetch, previousFreeIds, MODEL_MAP, published,
                   terminalFailures, dispatch>>

\* a session_start handler that starts a refresh when none is in flight
SessionStart_Refreshes(hasUI, hasSetWidget) ==
    /\ pc = "done"
    /\ shownCount < MaxShown
    /\ notifier.registered
    /\ LET shown == ShowIfDue(notifier, widget, widgetDismissTimeout, shownCount,
                              hasUI, hasSetWidget)
       IN  /\ notifier' = shown[1]
           /\ widget' = shown[2]
           /\ widgetDismissTimeout' = shown[3]
           /\ shownCount' = shown[4]
    /\ fetch' = IF fetch.phase \in {"returned", "failed"}
                THEN [NoFetch EXCEPT !.phase = "zen"]
                ELSE fetch
    /\ UNCHANGED <<pure, files, env, pc, start, previousFreeIds, MODEL_MAP, published,
                   terminalFailures, dispatch>>

\* A "session_start" event.
SessionStart(hasUI, hasSetWidget) ==
    /\ pc = "done"
    /\ shownCount < MaxShown
    /\ notifier.registered
    /\ LET shown == ShowIfDue(notifier, widget, widgetDismissTimeout, shownCount,
                              hasUI, hasSetWidget)
       IN  /\ notifier' = shown[1]
           /\ widget' = shown[2]
           /\ widgetDismissTimeout' = shown[3]
           /\ shownCount' = shown[4]
    /\ UNCHANGED <<pure, files, env, pc, start, fetch, previousFreeIds, MODEL_MAP, published,
                   terminalFailures, dispatch>>

\* The 10 second timer fires; the context it closes over had setWidget.
DismissTimerFires ==
    /\ widgetDismissTimeout
    /\ widget' = Undef
    /\ widgetDismissTimeout' = FALSE
    /\ UNCHANGED <<pure, files, env, pc, start, fetch, previousFreeIds, MODEL_MAP, published,
                   terminalFailures, notifier, shownCount, dispatch>>

\* ------------------------------------------------------------------------
\* streamOpenCodeZen
\* ------------------------------------------------------------------------
ErrorEvent(message) == [type |-> "error", errorMessage |-> message]
BackendEvent == [type |-> "text", errorMessage |-> ""]

\* getStreamFunction: the stream function the dispatch calls
getStreamFunction(backend) ==
    CASE backend = "anthropic" -> "streamSimpleAnthropic"
      [] backend = "openai-responses" -> "streamSimpleOpenAIResponses"
      [] backend = "google" -> "streamSimpleGoogle"
      [] OTHER -> "streamSimpleOpenAICompletions"

\* a dispatch that routes an unknown identifier to the default backend
DispatchCall_DefaultBackend(map, registry, id, apiKey) ==
    LET cfg == MapGet(map, id)
        call == [NoDispatch EXCEPT !.id = id, !.apiKey = apiKey, !.cfg = cfg,
                     !.inRegistry = registry # Undef /\ Includes(IdsOf(Get(registry)), id)]
    IN  IF cfg = Undef
        THEN [call EXCEPT !.phase = "streaming",
                          !.backend = getStreamFunction("openai-completions")]
        ELSE IF ~apiKey /\ ~IsFree(Get(cfg))
        THEN [call EXCEPT !.phase = "ended", !.ended = 1,
                          !.events = <<ErrorEvent("No OpenCode API key")>>]
        ELSE [call EXCEPT !.phase = "streaming",
                          !.backend = getStreamFunction(Get(cfg).backend)]

\* a dispatch that omits the credential check
DispatchCall_NoCredentialCheck(map, registry, id, apiKey) ==
    LET cfg == MapGet(map, id)
        call == [NoDispatch EXCEPT !.id = id, !.apiKey = apiKey, !.cfg = cfg,
                     !.inRegistry = registry # Undef /\ Includes(IdsOf(Get(registry)), id)]
    IN  IF cfg = Undef
        THEN [call EXCEPT !.phase = "ended", !.ended = 1,
                          !.events = <<ErrorEvent("Unknown model")>>]
        ELSE [call EXCEPT !.phase = "streaming",
                          !.backend = getStreamFunction(Get(cfg).backend)]

\* The synchronous part of a dispatch: the lookup, the credential check and
\* the call of the backend, up to the first await on the inner stream.  A
\* throw is caught: one error event is pushed and the stream is ended.
\* inRegistry notes whether the identifier was among the models last handed
\* to registerProvider.
DispatchCall(map, registry, id, apiKey) ==
    LET cfg == MapGet(map, id)
        call == [NoDispatch EXCEPT !.id = id, !.apiKey = apiKey, !.cfg = cfg,
                     !.inRegistry = registry # Undef /\ Includes(IdsOf(Get(registry)), id)]
    IN  IF cfg = Undef
        THEN [call EXCEPT !.phase = "ended", !.ended = 1,
                          !.events = <<ErrorEvent("Unknown model")>>]
        ELSE IF ~apiKey /\ ~IsFree(Get(cfg))
        THEN [call EXCEPT !.phase = "ended", !.ended = 1,
                          !.events = <<ErrorEvent("No OpenCode API key")>>]
        ELSE [call EXCEPT !.phase = "streaming",
                          !.backend = getStreamFunction(Get(cfg).backend)]

Dispatch(id, apiKey) ==
    /\ pc # "init"
    /\ dispatch.phase # "streaming"
    /\ dispatch' = DispatchCall(MODEL_MAP, published, id, apiKey)
    /\ UNCHANGED <<pure, files, env, pc, start, fetch, previousFreeIds, MODEL_MAP, published,
                   terminalFailures, notifier, ui>>

\* The inner stream yields an event, which is forwarded.
BackendYields ==
    /\ dispatch.phase = "streaming"
    /\ Len(dispatch.events) < MaxBackendEvents
    /\ dispatch' = [dispatch EXCEPT !.events = Append(@, BackendEvent)]
    /\ UNCHANGED <<pure, files, env, pc, start, fetch, previousFreeIds, MODEL_MAP, published,
                   terminalFailures, notifier, ui>>

\* a dispatch that looks its record up again when the inner stream is
\* exhausted and refuses an identifier that is no longer registered
BackendReturns_LooksUpAgain ==
    /\ dispatch.phase = "streaming"
    /\ dispatch' = IF MapGet(MODEL_MAP, dispatch.id) = Undef
                   THEN [dispatch EXCEPT !.phase = "ended", !.ended = @ + 1,
                                         !.events = Append(@, ErrorEvent("Unknown model"))]
                   ELSE [dispatch EXCEPT !.phase = "ended", !.ended = @ + 1]
    /\ UNCHANGED <<pure, files, env, pc, start, fetch, previousFreeIds, MODEL_MAP, published,
                   terminalFailures, notifier, ui>>

\* The inner stream is exhausted: stream.end().
BackendReturns ==
    /\ dispatch.phase = "streaming"
    /\ dispatch' = [dispatch EXCEPT !.phase = "ended", !.ended = @ + 1]
    /\ UNCHANGED <<pure, files, env, pc, start, fetch, previousFreeIds, MODEL_MAP, published,
                   terminalFailures, notifier, ui>>

\* a catch block that ends a stream the try block has ended already
BackendThrows_EndsTwice ==
    /\ dispatch.phase = "streaming"
    /\ dispatch' = [dispatch EXCEPT !.phase = "ended", !.ended = @ + 2,
                                    !.events = Append(@, ErrorEvent("backend"))]
    /\ UNCHANGED <<pure, files, env, pc, start, fetch, previousFreeIds, MODEL_MAP, published,
                   terminalFailures, notifier, ui>>

\* The inner stream throws: the catch block pushes the error and ends.
BackendThrows ==
    /\ dispatch.phase = "streaming"
    /\ dispatch' = [dispatch EXCEPT !.phase = "ended", !.ended = @ + 1,
                                    !.events = Append(@, ErrorEvent("backend"))]
    /\ UNCHANGED <<pure, files, env, pc, start, fetch, previousFreeIds, MODEL_MAP, published,
                   terminalFailures, notifier, ui>>

\* ------------------------------------------------------------------------
\* Processes
\* ------------------------------------------------------------------------
\* The process ends (at any point) and pi is started again; only the three
\* files survive.
Restart(key, notify) ==
    /\ hasApiKey' = key
    /\ setting' = notify
    /\ pc' = "init"
    /\ start' = "none"
    /\ fetch' = NoFetch
    /\ previousFreeIds' = <<>>
    /\ MODEL_MAP' = <<>>
    /\ published' = Undef
    /\ terminalFailures' = 0
    /\ notifier' = NoNotifier
    /\ widget' = Undef
    /\ widgetDismissTimeout' = FALSE
    /\ shownCount' = 0
    /\ dispatch' = NoDispatch
    /\ UNCHANGED <<pure, files>>

\* ------------------------------------------------------------------------
\* Specifications
\* ------------------------------------------------------------------------
\* Spec: the life of the cache over any number of successive processes.
Next ==
    \/ InitWarm
    \/ InitCold
    \/ \E why \in ZenFailures : ZenFetchFails(why)
    \/ \E ids \in ZenLists, ok \in BOOLEAN : ZenFetchSucceeds(ids, ok)
    \/ \E d \in DevData, okModels \in BOOLEAN, okFree \in BOOLEAN : EnrichmentEnds(d, okModels, okFree)
    \/ \E key \in BOOLEAN, notify \in {"on", "off"} : Restart(key, notify)

Spec == Init /\ [][Next]_vars

\* The files a process can find when it starts: none, or those that a
\* refresh has left, the snapshot possibly missing because its write failed.
CacheLeft(zen, models, free) ==
    \/ zen = NoFile /\ models = NoFile /\ free = NoFile
    \/ \E ids \in ZenLists \ {<<>>}, d \in DevData, key \in BOOLEAN :
          /\ Len(buildModels(ids, d, key)) > 0
          /\ zen = Some(ids)
          /\ models = Some(EnrichAll(ids, d))
          /\ free \in {NoFile, Some(FreeIdsOf(buildModels(ids, d, key)))}

\* SpecDispatch: one process serving dispatches while it initializes and
\* refreshes.
InitDispatch ==
    /\ CacheLeft(zenFile, modelsFile, freeFile)
    /\ freeFile # NoFile \/ modelsFile = NoFile
    /\ hasApiKey \in BOOLEAN
    /\ setting = "on"
    /\ pure = NoPure
    /\ Fresh

NextDispatch ==
    \/ InitWarm
    \/ InitCold
    \/ \E why \in ZenFailures : ZenFetchFails(why)
    \/ \E ids \in ZenLists : ZenFetchSucceeds(ids, TRUE)
    \/ \E d \in DevData : EnrichmentEnds(d, TRUE, TRUE)
    \/ \E id \in Ids, apiKey \in BOOLEAN : Dispatch(id, apiKey)
    \/ BackendYields
    \/ BackendReturns
    \/ BackendThrows

SpecDispatch == InitDispatch /\ [][NextDispatch]_vars

\* SpecStream: SpecDispatch with a backend stream that terminates: a stream
\* that is iterated is eventually exhausted or throws.
SpecStream ==
    /\ InitDispatch
    /\ [][NextDispatch]_vars
    /\ WF_vars(BackendReturns \/ BackendThrows)

\* SpecUI: one process receiving input and session_start events while it
\* initializes and refreshes.
InitUI ==
    /\ CacheLeft(zenFile, modelsFile, freeFile)
    /\ hasApiKey \in BOOLEAN
    /\ setting \in {"on", "off"}
    /\ pure = NoPure
    /\ Fresh

NextUI ==
    \/ InitWarm
    \/ InitCold
    \/ \E why \in ZenFailures : ZenFetchFails(why)
    \/ \E ids \in ZenLists : ZenFetchSucceeds(ids, TRUE)
    \/ \E d \in DevData : EnrichmentEnds(d, TRUE, TRUE)
    \/ \E hasUI \in BOOLEAN, hasSetWidget \in BOOLEAN : Input(hasUI, hasSetWidget)
    \/ \E hasUI \in BOOLEAN, hasSetWidget \in BOOLEAN : SessionStart(hasUI, hasSetWidget)
    \/ DismissTimerFires

SpecUI == InitUI /\ [][NextUI]_vars

\* SpecMerge: buildModels applied to every identifier list and every
\* enrichment payload of MergeDevData.
MergeEntries ==
    {PlainEntry(id, c, c) : id \in {Undef, Some("")} \cup {Some(i) : i \in Ids}, c \in Prices}

\* entries that carry any of the four prices and omit the others; an entry
\* without cost object reads like the one that omits all four (cost?.input)
CostEntries ==
    {DevEntry(Undef, Undef, cin, cout, cread, cwrite, Undef, Undef, Undef, Undef, Undef, Undef) :
        cin \in {Undef, Some(1)}, cout \in {Undef, Some(1)},
        cread \in {Undef, Some(1)}, cwrite \in {Undef, Some(1)}}

\* the values of a provider.npm field: missing, empty, the three packages
\* with a backend of their own, and another package
NpmHints ==
    {Undef, Some(""), Some("@ai-sdk/anthropic"), Some("@ai-sdk/openai"), Some("@ai-sdk/google"),
     Some("@ai-sdk/openai-compatible")}

\* a paid entry with the given provider.npm
HintedEntry(npm) ==
    DevEntry(Undef, Undef, Some(1), Some(1), Undef, Undef, Undef, Undef, Undef, Undef, Undef, npm)

MergeDevData ==
    {Undef}
    \cup {Some([models |-> Undef, provider |-> Undef])}
    \cup {Some([models |-> Some(f), provider |-> Some([npm |-> Undef])]) :
             f \in [Ids -> {Some(e) : e \in MergeEntries} \cup {Undef}]}
    \cup {Some([models |-> Some([i \in Ids |-> IF i \in K THEN Some(e) ELSE Undef]),
                provider |-> Some([npm |-> Undef])]) :
             K \in SUBSET Ids, e \in CostEntries}
    \cup {Some([models |-> Some([i \in Ids |-> IF i \in K THEN Some(HintedEntry(npm)) ELSE Undef]),
                provider |-> Some([npm |-> providerNpm])]) :
             K \in SUBSET Ids, npm \in NpmHints, providerNpm \in NpmHints}

InitMerge ==
    /\ zenFile = NoFile /\ modelsFile = NoFile /\ freeFile = NoFile
    /\ hasApiKey = FALSE
    /\ setting = "on"
    /\ Fresh
    /\ \E ids \in SeqsUpTo(Ids, MaxListLen), d \in MergeDevData, key \in BOOLEAN :
          pure = [op |-> "buildModels", zenModelIds |-> ids, modelsDevData |-> d,
                  hasApiKey |-> key, returned |-> FALSE, models |-> <<>>]

CallBuildModels ==
    /\ pure.op = "buildModels"
    /\ ~pure.returned
    /\ pure' = [pure EXCEPT !.returned = TRUE,
                            !.models = buildModels(pure.zenModelIds, pure.modelsDevData,
                                                   pure.hasApiKey)]
    /\ UNCHANGED <<files, env, pc, start, fetch, previousFreeIds, MODEL_MAP, published,
                   terminalFailures, notifier, ui, dispatch>>

NextMerge == CallBuildModels

SpecMerge == InitMerge /\ [][NextMerge]_vars

\* SpecDiff: the change tracker applied to every pair of a previous snapshot
\* and a current list of free identifiers.
InitDiff ==
    /\ zenFile = NoFile /\ modelsFile = NoFile /\ freeFile = NoFile
    /\ hasApiKey = FALSE
    /\ setting = "on"
    /\ Fresh
    /\ \E previous \in SeqsUpTo(Ids, MaxSnapshotLen), current \in SeqsUpTo(Ids, MaxSnapshotLen) :
          pure = [op |-> "diff", previousFreeIds |-> previous, currentFreeIds |-> current,
                  returned |-> FALSE, added |-> <<>>, removed |-> <<>>,
                  hasFreeModelChanges |-> FALSE]

CallDiff ==
    /\ pure.op = "diff"
    /\ ~pure.returned
    /\ LET added == Minus(pure.currentFreeIds, pure.previousFreeIds)
           removed == Minus(pure.previousFreeIds, pure.currentFreeIds)
       IN  pure' = [pure EXCEPT !.returned = TRUE, !.added = added, !.removed = removed,
                                !.hasFreeModelChanges = Len(added) > 0 \/ Len(removed) > 0]
    /\ UNCHANGED <<files, env, pc, start, fetch, previousFreeIds, MODEL_MAP, published,
                   terminalFailures, notifier, ui, dispatch>>

NextDiff == CallDiff

SpecDiff == InitDiff /\ [][NextDiff]_vars

\* SpecDamage: one process started on a cache of which any file can be
\* damaged: unparsable, not an array, an enriched list whose records lack a
\* field.
DamagedModels(models) ==
    {NoFile, Unparsable, NotAnArrayFile, Some(models),
     Some([i \in 1..Len(models) |-> WithoutField(models[i], "cost")]),
     Some([i \in 1..Len(models) |-> WithoutField(models[i], "name")])}

DamagedSnapshot(ids) == {NoFile, Unparsable, NotAnArrayFile, Some(ids)}

InitDamage ==
    /\ \E ids \in ZenLists, d \in DevData, key \in BOOLEAN :
          /\ zenFile \in {NoFile, Unparsable, Some(ids)}
          /\ modelsFile \in DamagedModels(EnrichAll(ids, d))
          /\ freeFile \in DamagedSnapshot(FreeIdsOf(buildModels(ids, d, key)))
    /\ hasApiKey \in BOOLEAN
    /\ setting = "on"
    /\ pure = NoPure
    /\ Fresh

NextDamage ==
    \/ InitWarm
    \/ InitWarmThrows
    \/ InitCold
    \/ \E why \in ZenFailures : ZenFetchFails(why)
    \/ \E ids \in ZenLists : ZenFetchSucceeds(ids, TRUE)
    \/ \E d \in DevData : EnrichmentEnds(d, TRUE, TRUE)

SpecDamage == InitDamage /\ [][NextDamage]_vars

\* ------------------------------------------------------------------------
\* All the events of one process
\* ------------------------------------------------------------------------
\* A "model_select" event: the handler warns when the selected model is of
\* provider "opencode" and not in MODEL_MAP; it changes nothing else.  The
\* outcome of the last event is kept in pure.
ModelSelect(modelId, provider) ==
    /\ pc = "done"
    /\ pure' = [op |-> "model_select",
                warned |-> provider = "opencode" /\ MapGet(MODEL_MAP, modelId) = Undef]
    /\ UNCHANGED <<files, env, pc, start, fetch, previousFreeIds, MODEL_MAP, published,
                   terminalFailures, notifier, ui, dispatch>>

\* SpecEvents: one process with its refresh and every event it handles.
InitEvents ==
    /\ CacheLeft(zenFile, modelsFile, freeFile)
    /\ freeFile # NoFile \/ modelsFile = NoFile
    /\ hasApiKey \in BOOLEAN
    /\ setting = "on"
    /\ pure = NoPure
    /\ Fresh

NextEvents ==
    \/ InitWarm
    \/ InitCold
    \/ \E why \in ZenFailures : ZenFetchFails(why)
    \/ \E ids \in ZenLists : ZenFetchSucceeds(ids, TRUE)
    \/ \E d \in DevData : EnrichmentEnds(d, TRUE, TRUE)
    \/ \E hasUI \in BOOLEAN, hasSetWidget \in BOOLEAN : Input(hasUI, hasSetWidget)
    \/ \E hasUI \in BOOLEAN, hasSetWidget \in BOOLEAN : SessionStart(hasUI, hasSetWidget)
    \/ DismissTimerFires
    \/ \E modelId \in Ids, provider \in {"opencode", "other"} : ModelSelect(modelId, provider)
    \/ \E id \in Ids, apiKey \in BOOLEAN : Dispatch(id, apiKey)
    \/ BackendYields
    \/ BackendReturns
    \/ BackendThrows

SpecEvents == InitEvents /\ [][NextEvents]_vars

\* ------------------------------------------------------------------------
\* The two awaits of a request
\* ------------------------------------------------------------------------
\* SpecNetwork: one process in which each request is awaited in two steps,
\* as in the code: first the response (status and headers), then its body
\* (response.json()).  fetch.phase is "zen" or "enrich" while the response
\* is awaited and "zenBody" or "enrichBody" while the body is.  On a cold
\* start the requests go through fetchWithTimeout, whose timer is armed
\* while the response is awaited and cleared in its finally block when the
\* response has arrived; on a warm start there is no timer.

\* the response of the Zen endpoint arrives with a success status
ZenResponseArrives ==
    /\ fetch.phase = "zen"
    /\ fetch' = [fetch EXCEPT !.phase = "zenBody"]
    /\ UNCHANGED <<pure, files, env, pc, start, previousFreeIds, MODEL_MAP, published,
                   terminalFailures, notifier, ui, dispatch>>

\* the request fails or its status is not a success
ZenRequestFails(why) ==
    /\ fetch.phase = "zen"
    /\ why \in {"network error", "bad status"}
    /\ ZenFetchFails(why)

\* the timer of fetchWithTimeout aborts the request
ZenDeadlineFires ==
    /\ fetch.phase = "zen"
    /\ ZenFetchFails("timeout")

\* the body arrives and holds a data array
ZenBodyArrives(ids) ==
    /\ fetch.phase = "zenBody"
    /\ ZenFetchSucceeds(ids, TRUE)

\* the body arrives and is not JSON or holds no data array
ZenBodyMalformed ==
    /\ fetch.phase = "zenBody"
    /\ ZenFetchFails("malformed")

\* the response of models.dev arrives with a success status
EnrichResponseArrives ==
    /\ fetch.phase = "enrich"
    /\ fetch' = [fetch EXCEPT !.phase = "enrichBody"]
    /\ UNCHANGED <<pure, files, env, pc, start, previousFreeIds, MODEL_MAP, published,
                   terminalFailures, notifier, ui, dispatch>>

\* the request fails or its status is not a success
EnrichRequestFails ==
    /\ fetch.phase = "enrich"
    /\ EnrichmentEnds(Undef, TRUE, TRUE)

\* the timer of fetchWithTimeout aborts the request
EnrichDeadlineFires ==
    /\ fetch.phase = "enrich"
    /\ start = "cold"
    /\ EnrichmentEnds(Undef, TRUE, TRUE)

\* the body arrives: data.opencode, Undef when it is absent or when the
\* body is not JSON
EnrichBodyArrives(modelsDevData) ==
    /\ fetch.phase = "enrichBody"
    /\ EnrichmentEnds(modelsDevData, TRUE, TRUE)

InitNetwork ==
    /\ CacheLeft(zenFile, modelsFile, freeFile)
    /\ hasApiKey \in BOOLEAN
    /\ setting \in {"on", "off"}
    /\ pure = NoPure
    /\ Fresh

NextNetwork ==
    \/ InitWarm
    \/ InitCold
    \/ ZenResponseArrives
    \/ \E why \in ZenFailures : ZenRequestFails(why)
    \/ ZenDeadlineFires
    \/ \E ids \in ZenLists : ZenBodyArrives(ids)
    \/ ZenBodyMalformed
    \/ EnrichResponseArrives
    \/ EnrichRequestFails
    \/ EnrichDeadlineFires
    \/ \E d \in DevData : EnrichBodyArrives(d)

\* The host calls the export, which runs until it suspends, and an armed
\* timer fires unless it is cleared first.  Nothing is assumed of the
\* endpoints.
SpecNetwork ==
    /\ InitNetwork
    /\ [][NextNetwork]_vars
    /\ WF_vars(InitWarm)
    /\ WF_vars(InitCold)
    /\ WF_vars(ZenDeadlineFires)
    /\ WF_vars(EnrichDeadlineFires)

\* ------------------------------------------------------------------------
\* getModels and the default export of src/unnamed/part_000
\* ------------------------------------------------------------------------
\* part_000 is the variant of the extension without cache-first loading: its
\* export awaits getModels and registers what it returns.  Its helpers
\* (loadModelsFromCache, loadFreeModelIds, the save functions,
\* getBackendFromNpmPackage) and the loop of its step 3 read as the ones of
\* index.ts, so the operators above stand for them too.

\* loadZenModelsFromCache: the parsed list, or Null when the file is missing,
\* not the JSON of an array, or empty
loadZenModelsFromCache(file) ==
    IF file = NoFile THEN Null
    ELSE IF Len(file) = 2 THEN Null
    ELSE IF Len(Get(file)) = 0 THEN Null
    ELSE file

\* cachedModels.filter((m) => zenSet.has(m.id))
FilterToZen(cachedModels, zenModelIds) ==
    SelectSeq(cachedModels, LAMBDA m : m.id \in Range(zenModelIds))

\* getModels.  zenAnswer is Undef when fetchZenModels throws and Some(ids)
\* otherwise; enrichment.threw tells whether the models.dev request (or the
\* reading of its body) throws, enrichment.data is data.opencode otherwise
\* (Undef for a status that is not a success).  Yields what getModels does:
\* whether it throws, the list it used, the path it took, the list it
\* returns and the two files afterwards.
getModels(zenAnswer, zenCache, enrichment, modelsCache, hasKey) ==
    LET cached == loadZenModelsFromCache(zenCache)
        zenModelIds == IF zenAnswer # Undef THEN Get(zenAnswer) ELSE Get(cached)
        zenAfter == IF zenAnswer # Undef THEN Some(Get(zenAnswer)) ELSE zenCache
        cachedModels == loadModelsFromCache(modelsCache)
        fallback == FilterToZen(Get(cachedModels), zenModelIds)
        built == EnrichAll(zenModelIds, enrichment.data)
    IN  IF zenAnswer = Undef /\ cached = Null
        THEN [threw |-> TRUE, zenModelIds |-> Undef, path |-> "error", models |-> <<>>,
              zenFile |-> zenCache, modelsFile |-> modelsCache]
        ELSE IF enrichment.threw /\ cachedModels # Null
        THEN [threw |-> FALSE, zenModelIds |-> Some(zenModelIds), path |-> "cached registry",
              models |-> IF hasKey THEN fallback ELSE FilterFree(fallback),
              zenFile |-> zenAfter, modelsFile |-> modelsCache]
        ELSE [threw |-> FALSE, zenModelIds |-> Some(zenModelIds), path |-> "built",
              models |-> IF hasKey THEN built ELSE FilterFree(built),
              zenFile |-> zenAfter, modelsFile |-> Some(built)]

\* the enrichment payloads of this specification: none, or a section in
\* which an identifier has no entry, the paid entry, or a free entry that
\* carries the id of any identifier
GetModelsDevData ==
    {Undef}
    \cup {Some([models |-> Some(f), provider |-> Some([npm |-> Undef])]) :
             f \in [Ids -> {Undef, Some(PaidEntry)}
                           \cup {Some(PlainEntry(Some(i), 0, 0)) : i \in Ids}]}

EnrichmentAnswers ==
    {[threw |-> TRUE, data |-> Undef]}
    \cup {[threw |-> FALSE, data |-> d] : d \in GetModelsDevData}

\* SpecGetModels: one run of the export of part_000 for every answer of the
\* two endpoints and every content of the two caches it reads.
InitGetModels ==
    /\ zenFile \in {NoFile} \cup {Some(ids) : ids \in ZenLists}
    /\ modelsFile \in {NoFile}
                      \cup {Some(EnrichAll(ids, d)) : ids \in ZenLists \ {<<>>}, d \in DevData}
    /\ freeFile = NoFile
    /\ hasApiKey \in BOOLEAN
    /\ setting = "on"
    /\ Fresh
    /\ \E zenAnswer \in {Undef} \cup {Some(ids) : ids \in ZenLists},
          enrichment \in EnrichmentAnswers :
          pure = [op |-> "getModels", zenAnswer |-> zenAnswer, enrichment |-> enrichment,
                  path |-> "none"]

\* The export of part_000: it awaits getModels; when getModels throws it
\* logs and returns, otherwise it fills MODEL_MAP, loads and saves the
\* snapshot, registers the provider and the handlers.
GetModelsExport ==
    /\ pure.op = "getModels"
    /\ pc = "init"
    /\ LET r == getModels(pure.zenAnswer, zenFile, pure.enrichment, modelsFile, hasApiKey)
           previous == loadFreeModelIds(freeFile)
       IN  /\ pure' = [pure EXCEPT !.path = r.path]
           /\ zenFile' = r.zenFile
           /\ modelsFile' = r.modelsFile
           /\ IF r.threw
              THEN /\ fetch' = [NoFetch EXCEPT !.phase = "failed"]
                   /\ terminalFailures' = terminalFailures + 1
                   /\ pc' = "abandoned"
                   /\ UNCHANGED <<freeFile, previousFreeIds, MODEL_MAP, published, notifier>>
              ELSE /\ fetch' = [NoFetch EXCEPT !.phase = "returned",
                                               !.zenModelIds = r.zenModelIds,
                                               !.enriched = pure.enrichment.data # Undef,
                                               !.result = Some(r.models)]
                   /\ MODEL_MAP' = MapOf(r.models)
                   /\ previousFreeIds' = previous
                   /\ freeFile' = Some(FreeIdsOf(r.models))
                   /\ published' = Some(ProviderModels(r.models))
                   /\ notifier' = Notifier(MapOf(r.models), previous, setting)
                   /\ pc' = "done"
                   /\ UNCHANGED terminalFailures
    /\ start' = "cold"
    /\ UNCHANGED <<env, ui, dispatch>>

NextGetModels == GetModelsExport

SpecGetModels == InitGetModels /\ [][NextGetModels]_vars

\* ------------------------------------------------------------------------
\* models.json as text
\* ------------------------------------------------------------------------
\* A JSON document is a pair of its kind and its content; an object is the
\* sequence of its members, each a pair of key and document.
JString(s) == <<"string", s>>
JNumber(n) == <<"number", n>>
JBoolean(b) == <<"boolean", b>>
JArray(items) == <<"array", items>>
JObject(members) == <<"object", members>>

\* JSON.stringify(models): every field of a ModelConfig is defined, so every
\* field is written, in the order the object literal of buildModels lists them
StringifyModel(m) ==
    JObject(<< <<"id", JString(m.id)>>,
               <<"name", JString(m.name)>>,
               <<"backend", JString(m.backend)>>,
               <<"reasoning", JBoolean(m.reasoning)>>,
               <<"input", JArray([i \in 1..Len(m.input) |-> JString(m.input[i])])>>,
               <<"cost", JObject(<< <<"input", JNumber(m.cost.input)>>,
                                    <<"output", JNumber(m.cost.output)>>,
                                    <<"cacheRead", JNumber(m.cost.cacheRead)>>,
                                    <<"cacheWrite", JNumber(m.cost.cacheWrite)>> >>)>>,
               <<"contextWindow", JNumber(m.contextWindow)>>,
               <<"maxTokens", JNumber(m.maxTokens)>> >>)

StringifyModels(models) == JArray([i \in 1..Len(models) |-> StringifyModel(models[i])])

\* the value JSON.parse gives for a member of an object
Member(object, key) ==
    LET members == object[2]
    IN  (members[CHOOSE i \in 1..Len(members) : members[i][1] = key])[2]

ParseModel(object) ==
    [id |-> Member(object, "id")[2],
     name |-> Member(object, "name")[2],
     backend |-> Member(object, "backend")[2],
     reasoning |-> Member(object, "reasoning")[2],
     input |-> [i \in 1..Len(Member(object, "input")[2]) |-> Member(object, "input")[2][i][2]],
     cost |-> [input |-> Member(Member(object, "cost"), "input")[2],
               output |-> Member(Member(object, "cost"), "output")[2],
               cacheRead |-> Member(Member(object, "cost"), "cacheRead")[2],
               cacheWrite |-> Member(Member(object, "cost"), "cacheWrite")[2]],
     contextWindow |-> Member(object, "contextWindow")[2],
     maxTokens |-> Member(object, "maxTokens")[2]]

ParseModels(text) == [i \in 1..Len(text[2]) |-> ParseModel(text[2][i])]

\* SpecRoundTrip: saveModelsToCache followed by loadModelsFromCache, for the
\* lists buildModels hands to saveModelsToCache.  Zen can list any string as
\* an identifier, the empty one included.
ListedIds == Ids \cup {""}

InitRoundTrip ==
    /\ zenFile = NoFile /\ modelsFile = NoFile /\ freeFile = NoFile
    /\ hasApiKey = FALSE
    /\ setting = "on"
    /\ Fresh
    /\ \E ids \in SeqsUpTo(ListedIds, MaxListLen) \ {<<>>}, d \in MergeDevData :
          pure = [op |-> "roundTrip", models |-> EnrichAll(ids, d), saved |-> FALSE,
                  text |-> NoFile, returned |-> FALSE, loaded |-> Null]

CallSaveModelsToCache ==
    /\ pure.op = "roundTrip"
    /\ ~pure.saved
    /\ pure' = [pure EXCEPT !.saved = TRUE, !.text = Some(StringifyModels(pure.models))]
    /\ UNCHANGED <<files, env, pc, start, fetch, previousFreeIds, MODEL_MAP, published,
                   terminalFailures, notifier, ui, dispatch>>

CallLoadModelsFromCache ==
    /\ pure.op = "roundTrip"
    /\ pure.saved
    /\ ~pure.returned
    /\ pure' = [pure EXCEPT !.returned = TRUE,
                            !.loaded = loadModelsFromCache(Some(ParseModels(Get(pure.text))))]
    /\ UNCHANGED <<files, env, pc, start, fetch, previousFreeIds, MODEL_MAP, published,
                   terminalFailures, notifier, ui, dispatch>>

NextRoundTrip == CallSaveModelsToCache \/ CallLoadModelsFromCache

SpecRoundTrip == InitRoundTrip /\ [][NextRoundTrip]_vars

\* ------------------------------------------------------------------------
\* Properties
\* ------------------------------------------------------------------------
PublishedIds == IF published = Undef THEN {} ELSE Range(IdsOf(Get(published)))

\* the authoritative list in force: the one this process fetched, else the
\* one persisted in zen-models.json
AuthoritativeIds ==
    IF fetch.zenModelIds # Undef THEN Range(Get(fetch.zenModelIds))
    ELSE IF zenFile # NoFile THEN Range(Get(zenFile))
    ELSE {}

\* C1: every identifier of the published registry belongs to the list this
\* process fetched from Zen, or, when it fetched none, to the list persisted
\* in zen-models.json.
C1_PublishedWithinAuthoritative == PublishedIds \subseteq AuthoritativeIds

\* C2: with a credential, buildModels returns for a non-empty identifier list
\* records whose identifiers are that list, in that order.
C2_MergeKeepsIds ==
    (pure.op = "buildModels" /\ pure.returned /\ pure.hasApiKey /\ Len(pure.zenModelIds) > 0)
        => IdsOf(pure.models) = pure.zenModelIds

\* C3: without a credential every record of the published registry is free,
\* after the fast path, after a background refresh and after a cold start.
C3_NoKeyPublishesFreeOnly ==
    (~hasApiKey /\ published # Undef)
        => /\ \A i \in 1..Len(Get(published)) : IsFree(Get(published)[i])
           /\ \A i \in 1..Len(MODEL_MAP) : IsFree(MODEL_MAP[i])

\* Zen listed m1 and m2, m1 is paid, and only m2 was published
C3_Witness ==
    /\ ~hasApiKey
    /\ fetch.phase = "returned"
    /\ fetch.zenModelIds = Some(<<"m1", "m2">>)
    /\ modelsFile # NoFile
    /\ IdsOf(Get(modelsFile)) = <<"m1", "m2">>
    /\ ~IsFree(Get(modelsFile)[1])
    /\ published # Undef
    /\ IdsOf(Get(published)) = <<"m2">>

C5_WarmFailureKeepsCache ==
    (start = "warm" /\ fetch.phase = "failed")
        => /\ modelsFile # NoFile
           /\ published = Some(ProviderModels(FastPathModels(Get(modelsFile), hasApiKey)))
           /\ MODEL_MAP = MapOf(FastPathModels(Get(modelsFile), hasApiKey))
           /\ terminalFailures = 0
           /\ pc = "done"

C5_Witness == start = "warm" /\ fetch.phase = "failed" /\ Len(MODEL_MAP) > 0

\* C6: a step in which no endpoint answers leaves the three persisted records
\* as they are, and a process that starts with a loadable enriched registry
\* publishes it (its free records if there is no credential); so every run
\* that stays offline hands the same cache to the next one.
C6_OfflineRunsKeepCache ==
    [][fetch'.phase \notin {"enrich", "returned"}
         => /\ files' = files
            /\ (pc = "init" /\ pc' # "init" /\ loadModelsFromCache(modelsFile) # Null)
                 => /\ start' = "warm"
                    /\ published' = Some(ProviderModels(FastPathModels(Get(modelsFile), hasApiKey)))]_vars

\* a later process, offline, serving from a cache that is still complete
C6_Witness ==
    /\ start = "warm"
    /\ fetch.phase = "failed"
    /\ zenFile # NoFile /\ modelsFile # NoFile /\ freeFile # NoFile
    /\ published # Undef

\* C7: when the background refresh of a warm start gets a non-empty list from
\* Zen, the published registry becomes the fresh one and the free-id snapshot
\* is overwritten with its free identifiers (unless that write fails).
C7_RefreshRepublishes ==
    [][(start = "warm" /\ fetch.phase = "enrich" /\ fetch'.phase = "returned"
          /\ Len(Get(fetch.zenModelIds)) > 0)
         => /\ published' = Some(ProviderModels(Get(fetch'.result)))
            /\ \/ freeFile' = Some(FreeIdsOf(Get(fetch'.result)))
               \/ freeFile' = freeFile]_vars

\* C8: when the fresh registry published by this process has a free set that
\* differs from the previous session's snapshot and notifications are on, the
\* change (added, removed) is handed to the notification handlers.
C8_ChangeIsRaised ==
    LET T == Range(FreeIdsOf(Get(fetch.result)))
        S == Range(previousFreeIds)
    IN  (/\ fetch.phase = "returned"
         /\ Len(Get(fetch.result)) > 0
         /\ setting = "on"
         /\ T # S)
            => /\ notifier.registered
               /\ Range(notifier.added) = T \ S
               /\ Range(notifier.removed) = S \ T

\* C9: the change notification is shown at most once in a process, and only
\* for a non-empty change with the setting on.
C9_NotificationAtMostOnce ==
    /\ shownCount <= 1
    /\ shownCount > 0
         => /\ setting = "on"
            /\ notifier.registered
            /\ Len(notifier.added) > 0 \/ Len(notifier.removed) > 0

\* the notification has been shown and a later input event has dismissed it
C9_Witness ==
    /\ shownCount = 1
    /\ notifier.notificationShown
    /\ widget = Undef
    /\ ~widgetDismissTimeout

\* C10: a dispatch of an identifier that is not in the published registry
\* calls no backend; its stream carries one error event and is ended.
C10_UnknownIdNeverReachesBackend ==
    (dispatch.phase # "idle" /\ ~dispatch.inRegistry)
        => /\ dispatch.backend = "none"
           /\ dispatch.phase = "ended"
           /\ dispatch.ended = 1
           /\ Len(dispatch.events) = 1
           /\ dispatch.events[1].type = "error"

\* an unknown identifier dispatched while a registry is published
C10_Witness ==
    /\ dispatch.phase = "ended"
    /\ ~dispatch.inRegistry
    /\ published # Undef
    /\ Len(Get(published)) > 0

\* ------------------------------------------------------------------------
\* C11.  A dispatch for a published record that is not free, made without a
\* credential, never calls a backend stream function: the call ends with
\* exactly one event, the error "No OpenCode API key", and is not retried.  A
\* dispatch for a free record is handed to the stream function of the
\* record's backend whether a credential is passed or not.
C11_PaidRecordNeedsCredential ==
    (dispatch.phase # "idle" /\ dispatch.inRegistry /\ dispatch.cfg # Undef)
        => IF ~dispatch.apiKey /\ ~IsFree(Get(dispatch.cfg))
           THEN /\ dispatch.backend = "none"
                /\ dispatch.phase = "ended"
                /\ dispatch.ended = 1
                /\ dispatch.events = <<ErrorEvent("No OpenCode API key")>>
           ELSE dispatch.backend = getStreamFunction(Get(dispatch.cfg).backend)

\* a paid record of the published registry dispatched without a credential
C11_Witness ==
    /\ dispatch.phase = "ended"
    /\ dispatch.inRegistry
    /\ dispatch.cfg # Undef
    /\ ~IsFree(Get(dispatch.cfg))
    /\ ~dispatch.apiKey
    /\ published # Undef

\* ------------------------------------------------------------------------
\* C12.  On a warm start the cached registry is published before the fresh
\* one: the step that starts a warm process publishes the cached registry
\* while the refresh is still outstanding; the only later change of the
\* published registry in that process is the refresh publishing its result;
\* and once the refresh has returned the published registry changes no more,
\* so the cached registry is never seen after the fresh one.
C12_CachedPublishedBeforeFresh ==
    [][/\ (pc = "init" /\ start' = "warm")
            => /\ published' = Some(ProviderModels(FastPathModels(
                                     Get(loadModelsFromCache(modelsFile)), hasApiKey)))
               /\ fetch'.phase = "zen"
       /\ (start = "warm" /\ pc' # "init" /\ published' # published)
            => /\ published # Undef
               /\ fetch.phase = "enrich"
               /\ fetch'.phase = "returned"
               /\ published' = Some(ProviderModels(Get(fetch'.result)))
       /\ (start = "warm" /\ pc' # "init" /\ fetch.phase = "returned")
            => published' = published]_vars

\* a warm process whose refresh has published its result
C12_Witness ==
    /\ start = "warm"
    /\ fetch.phase = "returned"
    /\ Len(Get(fetch.result)) > 0
    /\ published = Some(ProviderModels(Get(fetch.result)))

\* ------------------------------------------------------------------------
\* C13.  Dispatch lookups interleaved with the re-publish of a refresh see a
\* complete registry: whenever a registry is published, MODEL_MAP holds every
\* identifier of it, and a dispatch for an identifier of the registry
\* published at that moment (the old one before the re-publish, the new one
\* after it) finds the record of that identifier, never "Unknown model".
C13_LookupSeesCompleteRegistry ==
    /\ published # Undef => Range(IdsOf(MODEL_MAP)) = PublishedIds
    /\ (dispatch.phase # "idle" /\ dispatch.inRegistry)
         => /\ dispatch.cfg # Undef
            /\ Get(dispatch.cfg).id = dispatch.id

\* a dispatch served from the registry that a background refresh re-published
C13_Witness ==
    /\ start = "warm"
    /\ fetch.phase = "returned"
    /\ Len(Get(fetch.result)) > 0
    /\ dispatch.phase # "idle"
    /\ dispatch.inRegistry
    /\ dispatch.cfg = MapGet(MapOf(Get(fetch.result)), dispatch.id)

\* ------------------------------------------------------------------------
\* C15.  When Zen answered with a non-empty list and the enrichment request
\* yields no data (network error, deadline, status, body, missing section),
\* fetchFreshModels returns a registry holding the default record of every
\* listed identifier, on the cold start as in the background: the registry is
\* published and the cold start completes.  fetchFreshModels fails only
\* before it has a list from Zen.
C15_EnrichmentFailureIsNotFatal ==
    /\ fetch.phase = "failed" => fetch.zenModelIds = Undef
    /\ (fetch.phase = "returned" /\ ~fetch.enriched /\ Len(Get(fetch.zenModelIds)) > 0)
         => LET ids == Get(fetch.zenModelIds)
                models == Get(fetch.result)
            IN  /\ Len(models) = Len(ids)
                /\ \A i \in 1..Len(ids) :
                      /\ models[i].id = ids[i]
                      /\ models[i].name = ids[i]
                      /\ models[i].backend = "openai-completions"
                      /\ IsFree(models[i])
                /\ published = Some(ProviderModels(models))
                /\ start = "cold" => pc = "done"

\* a cold start that lost the enrichment and completed with the defaults
C15_Witness ==
    /\ start = "cold"
    /\ fetch.phase = "returned"
    /\ ~fetch.enriched
    /\ Len(Get(fetch.zenModelIds)) > 0
    /\ pc = "done"

\* ------------------------------------------------------------------------
\* C16.  A refresh whose request to Zen fails, or is answered with an empty
\* list, writes none of zen-models.json, models.json and free-models.json: a
\* step in which the refresh fails, or takes or merges an empty list, leaves
\* the three files as they were.
C16_FailedRefreshWritesNothing ==
    [][(fetch' # fetch /\ (fetch'.phase = "failed" \/ fetch'.zenModelIds = Some(<<>>)))
          => files' = files]_vars

\* ------------------------------------------------------------------------
\* C17.  The identifiers of the records are pairwise distinct in every
\* published registry and in every registry persisted in models.json, and
\* the list handed to registerProvider has as many records as MODEL_MAP.
Distinct(s) == \A i, j \in 1..Len(s) : s[i] = s[j] => i = j

C17_RecordIdsAreDistinct ==
    /\ published # Undef
         => /\ Distinct(IdsOf(Get(published)))
            /\ Len(Get(published)) = Len(MODEL_MAP)
    /\ modelsFile # NoFile => Distinct(IdsOf(Get(modelsFile)))

\* ------------------------------------------------------------------------
\* C19.  For all previous and current sequences of free identifiers the
\* change tracker yields added and removed with no identifier in common;
\* added and the identifiers in both sequences make up current; removed and
\* the identifiers in both make up previous; added lists its identifiers in
\* the order of current and removed in the order of previous.
RECURSIVE IsSubSeqOf(_, _)
IsSubSeqOf(a, s) ==
    IF a = <<>> THEN TRUE
    ELSE IF s = <<>> THEN FALSE
    ELSE IF Head(a) = Head(s) THEN IsSubSeqOf(Tail(a), Tail(s))
    ELSE IsSubSeqOf(a, Tail(s))

C19_DiffPartitions ==
    (pure.op = "diff" /\ pure.returned)
        => LET curr == Range(pure.currentFreeIds)
               prev == Range(pure.previousFreeIds)
               added == Range(pure.added)
               removed == Range(pure.removed)
           IN  /\ added \cap removed = {}
               /\ added \cup (curr \cap prev) = curr
               /\ removed \cup (curr \cap prev) = prev
               /\ IsSubSeqOf(pure.added, pure.currentFreeIds)
               /\ IsSubSeqOf(pure.removed, pure.previousFreeIds)

\* a diff of two sequences of several identifiers, one added and one removed
C19_Witness ==
    /\ pure.op = "diff"
    /\ pure.returned
    /\ Len(pure.added) > 0
    /\ Len(pure.removed) > 0
    /\ Len(pure.currentFreeIds) > 1
    /\ Len(pure.previousFreeIds) > 1

\* ------------------------------------------------------------------------
\* C20.  For an identifier without enrichment entry (no enrichment at all, or
\* no entry under that key) buildModels pushes the record named after the
\* identifier, with backend openai-completions, input text only, reasoning
\* false, the four costs 0, context window 128000 and 16384 output tokens;
\* for an identifier with an entry, every cost field the entry omits is 0.
C20_DefaultsApplied ==
    (pure.op = "buildModels" /\ pure.returned /\ pure.hasApiKey)
        => /\ Len(pure.models) = Len(pure.zenModelIds)
           /\ \A i \in 1..Len(pure.zenModelIds) :
                LET id == pure.zenModelIds[i]
                    entry == DevLookup(pure.modelsDevData, id)
                    m == pure.models[i]
                IN  IF entry = Undef
                    THEN m = [id |-> id, name |-> id, backend |-> "openai-completions",
                              reasoning |-> FALSE, input |-> <<"text">>,
                              cost |-> [input |-> 0, output |-> 0,
                                        cacheRead |-> 0, cacheWrite |-> 0],
                              contextWindow |-> 128000, maxTokens |-> 16384]
                    ELSE /\ Get(entry).cost.input = Undef => m.cost.input = 0
                         /\ Get(entry).cost.output = Undef => m.cost.output = 0
                         /\ Get(entry).cost.cache_read = Undef => m.cost.cacheRead = 0
                         /\ Get(entry).cost.cache_write = Undef => m.cost.cacheWrite = 0

\* a merge of one identifier without entry and one whose entry has an output
\* price and no input price
C20_Witness ==
    /\ pure.op = "buildModels"
    /\ pure.returned
    /\ pure.hasApiKey
    /\ \E i, j \in 1..Len(pure.zenModelIds) :
          /\ DevLookup(pure.modelsDevData, pure.zenModelIds[i]) = Undef
          /\ pure.modelsDevData # Undef
          /\ LET entry == DevLookup(pure.modelsDevData, pure.zenModelIds[j])
             IN  /\ entry # Undef
                 /\ Get(entry).cost.input = Undef
                 /\ Get(entry).cost.output = Some(1)
                 /\ pure.models[j].cost.output = 1

\* ------------------------------------------------------------------------
\* C18.  For every list of at least one record that buildModels saves,
\* saveModelsToCache followed by loadModelsFromCache returns a list equal to
\* the saved one, field for field and in the same order.
C18_SaveLoadRoundTrip ==
    (pure.op = "roundTrip" /\ pure.returned) => pure.loaded = Some(pure.models)

\* ------------------------------------------------------------------------
\* C14.  Whatever the three files hold, initialization raises no exception
\* and reads a file that is damaged (unparsable, not an array, a list whose
\* records lack a field) as it reads a missing one: the snapshot loaded is
\* the one of the file with damage taken for absence, and the process starts
\* warm exactly when the enriched list is intact and not empty.
IntactModels(file) ==
    IF file = NoFile \/ Len(file) = 2 THEN NoFile
    ELSE IF \E i \in 1..Len(Get(file)) :
                \/ "cost" \notin DOMAIN Get(file)[i]
                \/ "name" \notin DOMAIN Get(file)[i]
         THEN NoFile
    ELSE file

IntactSnapshot(file) == IF file = NoFile \/ Len(file) = 2 THEN NoFile ELSE file

C14_DamagedRecordReadsAsAbsent ==
    [][/\ pc' # "threw"
       /\ (pc = "init" /\ pc' # "init")
            => /\ previousFreeIds' = loadFreeModelIds(IntactSnapshot(freeFile))
               /\ (start' = "warm") = (loadModelsFromCache(IntactModels(modelsFile)) # Null)]_vars

\* ------------------------------------------------------------------------
\* C21.  The backend of an enriched record is read off one routing hint: the
\* provider.npm of the entry when it is present (a non-empty string), else
\* the provider.npm of the opencode section.  The hint @ai-sdk/anthropic
\* gives anthropic, @ai-sdk/openai gives openai-responses, @ai-sdk/google
\* gives google, and any other or missing hint gives openai-completions; so
\* an entry hint that is present and unknown gives openai-completions
\* whatever the default of the section is.
HintOf(entry, modelsDevData) ==
    IF entry.provider.npm # Undef /\ entry.provider.npm # Some("")
    THEN entry.provider.npm
    ELSE ProviderDefaultNpm(modelsDevData)

C21_BackendFollowsHint ==
    (pure.op = "buildModels" /\ pure.returned /\ pure.hasApiKey)
        => \A i \in 1..Len(pure.zenModelIds) :
              LET entry == DevLookup(pure.modelsDevData, pure.zenModelIds[i])
                  hint == HintOf(Get(entry), pure.modelsDevData)
                  backend == pure.models[i].backend
              IN  entry # Undef
                  => /\ hint = Some("@ai-sdk/anthropic") => backend = "anthropic"
                     /\ hint = Some("@ai-sdk/openai") => backend = "openai-responses"
                     /\ hint = Some("@ai-sdk/google") => backend = "google"
                     /\ hint \notin {Some("@ai-sdk/anthropic"), Some("@ai-sdk/openai"),
                                     Some("@ai-sdk/google")}
                          => backend = "openai-completions"

\* an entry without hint under the section default @ai-sdk/anthropic, priced:
\* the record is routed to anthropic and is not free; and an entry with an
\* unknown hint under the same default, routed to openai-completions
C21_Witness ==
    /\ pure.op = "buildModels"
    /\ pure.returned
    /\ pure.hasApiKey
    /\ Len(pure.zenModelIds) > 0
    /\ ProviderDefaultNpm(pure.modelsDevData) = Some("@ai-sdk/anthropic")
    /\ LET entry == DevLookup(pure.modelsDevData, pure.zenModelIds[1])
       IN  /\ entry # Undef
           /\ Get(entry).provider.npm = Undef
           /\ pure.models[1].backend = "anthropic"
           /\ ~IsFree(pure.models[1])

\* ------------------------------------------------------------------------
\* C22.  When a change is pending and notifications are on, the UI event
\* that shows the notification, an input event included, leaves the change
\* widget displayed with the 10 second timer armed once all handlers of the
\* extension have run for that event.
C22_WidgetStaysAfterFirstInput ==
    [][(notifier.registered /\ ~notifier.notificationShown /\ shownCount' = shownCount + 1)
          => /\ widget' = Some(NotificationLines(notifier.added, notifier.removed))
             /\ widgetDismissTimeout']_vars

\* ------------------------------------------------------------------------
\* C23.  When the request to the Zen endpoint fails, loading ends in the
\* error with no provider registered only if zen-models.json holds no
\* non-empty list of identifiers; with such a list a provider is registered.
C23_CachedIdsGiveProvider ==
    (fetch.phase = "failed" /\ loadZenModelsFromCache(zenFile) # Null)
        => /\ published # Undef
           /\ pc # "abandoned"

\* ------------------------------------------------------------------------
\* C24.  In getModels of part_000 every identifier of the returned registry
\* is in the list of identifiers the call used, and where the records are
\* built from that list the n-th record built carries the n-th identifier.
C24_ReturnedIdsAreAuthoritative ==
    (pure.op = "getModels" /\ fetch.phase = "returned")
        => /\ \A i \in 1..Len(Get(fetch.result)) :
                  Get(fetch.result)[i].id \in Range(Get(fetch.zenModelIds))
           /\ pure.path = "built" => IdsOf(Get(modelsFile)) = Get(fetch.zenModelIds)

\* ------------------------------------------------------------------------
\* C25.  A cold start always eventually completes, by publishing a registry
\* or by abandoning registration, whatever the endpoints do, provided the
\* deadline timer fires.
C25_ColdStartCompletes == (pc = "coldWait") ~> (pc \in {"done", "abandoned"})

\* ------------------------------------------------------------------------
\* C26.  A process that finds a loadable cache completes with the cached
\* registry published and its handlers registered while the first request
\* of the refresh is still unanswered.
WarmCache ==
    /\ loadModelsFromCache(modelsFile) # Null
    /\ Len(Get(loadModelsFromCache(modelsFile))) > 0

C26_WarmStartCompletes ==
    (pc = "init" /\ WarmCache)
        ~> (/\ pc = "done"
            /\ fetch.phase = "zen"
            /\ published = Some(ProviderModels(FastPathModels(
                                  Get(loadModelsFromCache(modelsFile)), hasApiKey))))

\* a warm process that has completed and registered the notification
\* handlers while the refresh awaits the response of the Zen endpoint
C26_Witness ==
    /\ start = "warm"
    /\ pc = "done"
    /\ fetch.phase = "zen"
    /\ notifier.registered
    /\ Len(Get(published)) > 0

\* ------------------------------------------------------------------------
\* C27.  A process starts exactly one refresh: the step that runs the export
\* sends the request to the Zen endpoint, no other step does; the request
\* to models.dev is sent only by the step in which the Zen endpoint has
\* answered; and once the refresh has ended, whatever its outcome and
\* whatever event follows, no request is sent any more.
C27_OneRefreshPerRun ==
    [][/\ (pc = "init" /\ pc' # "init") => (fetch.phase = "idle" /\ fetch'.phase = "zen")
       /\ (fetch'.phase = "zen" /\ fetch.phase # "zen") => pc = "init"
       /\ (fetch'.phase = "enrich" /\ fetch.phase # "enrich") => fetch.phase = "zen"
       /\ fetch.phase \in {"returned", "failed"} => fetch' = fetch]_vars

\* a process whose refresh has ended and which has since shown the
\* notification and served a dispatch
C27_Witness ==
    /\ fetch.phase \in {"returned", "failed"}
    /\ shownCount > 0
    /\ dispatch.phase = "ended"
    /\ pure.op = "model_select"

\* ------------------------------------------------------------------------
\* C28.  A failed write does not change what a refresh publishes: whether
\* or not zen-models.json was written the refresh goes on with the list it
\* fetched, and whether or not models.json and free-models.json are written
\* the step that ends it registers buildModels of that list when it is not
\* empty.  Nor does a file that could not be read: whatever the process
\* found at its start, the non-empty result of its refresh is published.
C28_WriteFailureIsSwallowed ==
    [][/\ (fetch.phase = "zen" /\ fetch'.phase = "enrich")
            => /\ fetch'.zenModelIds # Undef
               /\ published' = published
       /\ (fetch.phase = "enrich" /\ fetch'.phase = "returned")
            => /\ \E d \in DevData :
                    fetch'.result = Some(buildModels(Get(fetch.zenModelIds), d, hasApiKey))
               /\ Len(Get(fetch'.result)) > 0
                    => /\ published' = Some(ProviderModels(Get(fetch'.result)))
                       /\ MODEL_MAP' = MapOf(Get(fetch'.result))]_vars

\* a first process all of whose writes failed and which has published the
\* result of its refresh
C28_Witness ==
    /\ fetch.phase = "returned"
    /\ Len(Get(fetch.result)) > 0
    /\ published = Some(ProviderModels(Get(fetch.result)))
    /\ zenFile = NoFile
    /\ modelsFile = NoFile
    /\ freeFile = NoFile

\* ------------------------------------------------------------------------
\* C29.  models.json is only ever written with the whole merge, paid records
\* included.  In the step that ends a refresh of a non-empty list and
\* writes models.json, the published registry becomes the persisted one
\* with a credential and its free records without (no provider counting as
\* the empty registry).  A process that starts with a credential on a
\* loadable models.json publishes all of its records.
PublishedOrEmpty(p) == IF p = Undef THEN <<>> ELSE Get(p)

C29_PersistedIsFullMerge ==
    [][/\ modelsFile' # modelsFile
            => /\ fetch.phase = "enrich"
               /\ \E d \in DevData :
                     modelsFile' = Some(EnrichAll(Get(fetch.zenModelIds), d))
       /\ (/\ fetch.phase = "enrich"
           /\ fetch'.phase = "returned"
           /\ Len(Get(fetch.zenModelIds)) > 0
           /\ \E d \in DevData :
                 /\ fetch'.result = Some(buildModels(Get(fetch.zenModelIds), d, hasApiKey))
                 /\ modelsFile' = Some(EnrichAll(Get(fetch.zenModelIds), d)))
            => PublishedOrEmpty(published')
                 = ProviderModels(IF hasApiKey THEN Get(modelsFile')
                                  ELSE FilterFree(Get(modelsFile')))
       /\ (pc = "init" /\ start' = "warm" /\ hasApiKey)
            => published' = Some(ProviderModels(Get(modelsFile)))]_vars

\* ------------------------------------------------------------------------
\* C30.  In a process whose writes all succeed, once the refresh of a
\* non-empty list has returned, the snapshot read from free-models.json is
\* the sequence of the identifiers of the free records of models.json.
C30_SnapshotMatchesRegistry ==
    (fetch.phase = "returned" /\ Len(Get(fetch.zenModelIds)) > 0)
        => loadFreeModelIds(freeFile) = FreeIdsOf(Get(modelsFile))

\* ------------------------------------------------------------------------
\* C31.  The stream of a dispatch is ended once and only once: a dispatch
\* whose backend stream is being iterated is eventually ended, an ended one
\* has seen exactly one stream.end(), and one still iterating has seen
\* none.  At most one error event is pushed and it is the last event; the
\* events before it are the events of the backend, and forwarding only
\* appends to them.  A dispatch that ends without having called a backend
\* has the error as its only event.
ErrorsIn(events) == {i \in 1..Len(events) : events[i].type = "error"}

StreamWellFormed ==
    /\ dispatch.phase = "ended" => dispatch.ended = 1
    /\ dispatch.phase \in {"idle", "streaming"} => dispatch.ended = 0
    /\ ErrorsIn(dispatch.events) \subseteq {Len(dispatch.events)}
    /\ dispatch.phase = "streaming" => ErrorsIn(dispatch.events) = {}
    /\ (dispatch.phase = "ended" /\ dispatch.backend = "none")
         => (Len(dispatch.events) = 1 /\ ErrorsIn(dispatch.events) = {1})

ForwardedInOrder ==
    (dispatch.phase = "streaming" /\ dispatch' # dispatch)
        => /\ dispatch'.phase \in {"streaming", "ended"}
           /\ Len(dispatch'.events) >= Len(dispatch.events)
           /\ SubSeq(dispatch'.events, 1, Len(dispatch.events)) = dispatch.events
           /\ Len(dispatch'.events) <= Len(dispatch.events) + 1

C31_StreamEndsOnce ==
    /\ []StreamWellFormed
    /\ [][ForwardedInOrder]_vars
    /\ (dispatch.phase = "streaming") ~> (dispatch.phase = "ended")

\* a dispatch whose backend threw after an event had been forwarded
C31_Witness ==
    /\ dispatch.phase = "ended"
    /\ dispatch.backend # "none"
    /\ Len(dispatch.events) = 2
    /\ dispatch.events[1].type = "text"
    /\ dispatch.events[2].type = "error"

\* ------------------------------------------------------------------------
\* C32.  A dispatch that has looked up its record keeps that record and the
\* stream function of its backend until it ends: a step that changes
\* MODEL_MAP leaves a dispatch in flight untouched, the dispatch then goes
\* on forwarding and ends only by the exhaustion or the throw of the
\* backend stream, never by a refusal, and it does end.  A dispatch is
\* refused as unknown exactly when its identifier is not in MODEL_MAP at
\* the step that looks it up.
InFlightKeepsRecord ==
    /\ (dispatch.phase = "streaming" /\ MODEL_MAP' # MODEL_MAP) => dispatch' = dispatch
    /\ (dispatch.phase = "streaming" /\ dispatch' # dispatch)
         => /\ dispatch'.id = dispatch.id
            /\ dispatch'.cfg = dispatch.cfg
            /\ dispatch'.backend = dispatch.backend
            /\ dispatch'.events \in {dispatch.events,
                                     Append(dispatch.events, BackendEvent),
                                     Append(dispatch.events, ErrorEvent("backend"))}
    /\ (dispatch.phase # "streaming" /\ dispatch' # dispatch)
         => (dispatch'.events = <<ErrorEvent("Unknown model")>>
               <=> MapGet(MODEL_MAP, dispatch'.id) = Undef)

C32_InFlightDispatchKeepsRecord ==
    /\ [][InFlightKeepsRecord]_vars
    /\ [](dispatch.phase = "streaming"
            => dispatch.backend = getStreamFunction(Get(dispatch.cfg).backend))
    /\ (dispatch.phase = "streaming")
         ~> (dispatch.phase = "ended" /\ dispatch.backend # "none")

\* a dispatch that ended normally although the background refresh removed
\* its identifier from MODEL_MAP while it was in flight
C32_Witness ==
    /\ start = "warm"
    /\ fetch.phase = "returned"
    /\ dispatch.phase = "ended"
    /\ dispatch.backend # "none"
    /\ ErrorsIn(dispatch.events) = {}
    /\ Len(dispatch.events) > 0
    /\ MapGet(MODEL_MAP, dispatch.id) = Undef

\* ------------------------------------------------------------------------
\* C33.  On a cold start whose writes succeed, registration is abandoned,
\* with one terminal failure reported, exactly when the request to the Zen
\* endpoint has failed or its list was empty; when fetchFreshModels has
\* returned for a non-empty list a registry is published, the export has
\* completed and free-models.json holds the free identifiers of the result.
C33_ColdAbandonsOnlyOnFailedFetch ==
    start = "cold"
        => /\ pc = "abandoned"
                <=> \/ fetch.phase = "failed"
                    \/ fetch.phase = "returned" /\ Len(Get(fetch.zenModelIds)) = 0
           /\ terminalFailures = (IF pc = "abandoned" THEN 1 ELSE 0)
           /\ (fetch.phase = "returned" /\ Len(Get(fetch.zenModelIds)) > 0)
                => /\ pc = "done"
                   /\ published = Some(ProviderModels(Get(fetch.result)))
                   /\ freeFile = Some(FreeIdsOf(Get(fetch.result)))

====
